---- MODULE Spec2Model ----
(***************************************************************************)
(* Model of the Backend2 admin API: OTP login (routes/authRoutes.js), the  *)
(* JWT middleware (middleware/authMiddleware.js) and the event and team    *)
(* member CRUD routes with their image reconciliation                      *)
(* (routes/eventRoutes.js, routes/teamRoutes.js).                          *)
(*                                                                         *)
(* Time is Date.now() in milliseconds.  Optional values (undefined, null)  *)
(* are sets with at most one element.  A request header is the sequence of *)
(* words authHeader.split(' ') yields.                                     *)
(***************************************************************************)
EXTENDS Integers, Sequences, FiniteSets, TLC

VARIABLES now, otpStore, mailCount, tokens, verifying, users, strictQuery,
          events, teamMembers, disk, nextFile, req, res

vars == <<now, otpStore, mailCount, tokens, verifying, users, strictQuery,
          events, teamMembers, disk, nextFile, req, res>>

authVars == <<otpStore, mailCount, tokens, verifying>>
envVars == <<users, strictQuery>>
resourceVars == <<events, teamMembers, disk, nextFile>>

(***************************************************************************)
(* Bounds of the model.                                                    *)
(***************************************************************************)
NumCodes == 2
MaxMails == 2
MaxTokens == 1
MaxDocs == 1
MaxFiles == 3
NumClients == 2

(***************************************************************************)
(* Configuration (process.env) and program constants.                      *)
(***************************************************************************)
CLUB_EMAIL == "admin@club"
OTHER_EMAIL == "someone@else"
ADMIN_SECRET == "admin-secret"
WRONG_SECRET == "wrong-secret"
JWT_SECRET == "jwt-secret"
OTHER_KEY == "other-key"

OTP_TTL_MS == 10 * 60 * 1000
TOKEN_TTL_S == 60 * 60
PLACEHOLDER_ID == "admin_id_placeholder_from_authroutes"

Emails == {CLUB_EMAIL, OTHER_EMAIL}
Secrets == {ADMIN_SECRET, WRONG_SECRET}
Codes == 1..NumCodes

\* The instants at which the clock is observed: around the issue time, the
\* OTP expiry and the token expiry, with sub-second offsets.
Offsets == {0, 1, 999}
ClockPoints == {b + o : b \in {0, OTP_TTL_MS, TOKEN_TTL_S * 1000}, o \in Offsets}
                 \cup {TOKEN_TTL_S * 1000 - 1}

(***************************************************************************)
(* models/User.js: the paths of userSchema.  A hydrated document exposes   *)
(* only schema paths (and _id); a filter key outside the schema is dropped *)
(* from the query when strictQuery is on and kept when it is off.          *)
(***************************************************************************)
userSchema == {"adminSecret", "email", "otp", "otpExpires"}

AdminDoc == [_id |-> "uid1", email |-> CLUB_EMAIL, adminSecret |-> "hash"]
AdminDocWithRole == [_id |-> "uid1", email |-> CLUB_EMAIL, adminSecret |-> "hash", role |-> "admin"]
UserCollections == {{}, {AdminDoc}, {AdminDocWithRole}}

Restrict(f, S) == [k \in (DOMAIN f) \cap S |-> f[k]]

Matches(doc, filter) ==
    \A k \in DOMAIN filter : k \in DOMAIN doc /\ doc[k] = filter[k]

\* User.findOne(filter): the set holding the hydrated match, or {} for null.
UserFindOne(filter) ==
    LET f == IF strictQuery THEN Restrict(filter, userSchema \cup {"_id"}) ELSE filter
    IN  {Restrict(d, userSchema \cup {"_id"}) : d \in {u \in users : Matches(u, f)}}

(***************************************************************************)
(* jsonwebtoken.  A token carries the payload, iat, exp (seconds) and a    *)
(* signature, which binds the signing key to the content signed.           *)
(***************************************************************************)
NowSec == now \div 1000

Content(tok) == <<tok.user, tok.iat, tok.exp>>

JwtSign(user, secret) ==
    LET iat == NowSec
        exp == iat + TOKEN_TTL_S
    IN  [user |-> user, iat |-> iat, exp |-> exp,
         sig |-> [key |-> secret, content |-> <<user, iat, exp>>]]

\* jwt.verify that lets a token through in the second at which it expires.
JwtVerifyLateExpiry(tok, secret) ==
    /\ tok.sig.key = secret
    /\ tok.sig.content = Content(tok)
    /\ ~(NowSec > tok.exp)

\* jwt.verify(token, secret): TRUE when it returns the decoded payload,
\* FALSE when it throws (bad signature or expired).
JwtVerify(tok, secret) ==
    /\ tok.sig.key = secret
    /\ tok.sig.content = Content(tok)
    /\ ~(NowSec >= tok.exp)

\* The payload built in verify-otp: JSON drops a key whose value is undefined.
Payload(adminUser) ==
    IF "role" \in DOMAIN adminUser
    THEN [id |-> adminUser._id, role |-> adminUser.role]
    ELSE [id |-> adminUser._id]

(***************************************************************************)
(* middleware/authMiddleware.js                                            *)
(***************************************************************************)
\* authenticateToken: the status it answers with, 0 when it calls next().
AuthenticateStatus(header) ==
    IF Len(header) = 0 THEN 401
    ELSE IF Len(header) < 2 THEN 401
    ELSE IF JwtVerify(header[2], JWT_SECRET) THEN 0
    ELSE 401

\* req.user after authenticateToken called next().
ReqUser(header) == header[2].user

\* The messages of the two refusals of authorizeRoles.
NO_IDENTITY == "Access denied: No user or role information found in token."
ROLE_NOT_ALLOWED == "Access denied: Requires one of the following roles"

\* A gate that lets every identity with a role through.
AuthorizeRolesAnyRole(user, roles) ==
    IF user = {} \/ \E u \in user : "role" \notin DOMAIN u \/ u.role = ""
      THEN [status |-> 403, message |-> NO_IDENTITY]
      ELSE [status |-> 0, message |-> ""]

\* authorizeRoles(roles) on req.user, which may be absent: the status and
\* message it answers with, status 0 when it calls next().  An empty role
\* is falsy.
AuthorizeRoles(user, roles) ==
    IF user = {} \/ \E u \in user : "role" \notin DOMAIN u \/ u.role = ""
      THEN [status |-> 403, message |-> NO_IDENTITY]
    ELSE IF \E u \in user : u.role \notin roles
      THEN [status |-> 403, message |-> ROLE_NOT_ALLOWED]
    ELSE [status |-> 0, message |-> ""]

\* authorizeRoles(roles): the status it answers with, 0 when it calls next().
AuthorizeStatus(user, roles) == AuthorizeRoles({user}, roles).status

\* The chain authenticateToken, authorizeRoles(['admin']) of a protected route.
GateStatus(header) ==
    IF AuthenticateStatus(header) # 0 THEN AuthenticateStatus(header)
    ELSE AuthorizeStatus(ReqUser(header), {"admin"})

(***************************************************************************)
(* The tokens a client can present: the minted ones, a minted one altered  *)
(* without re-signing, and one signed with a key that is not the server's. *)
(***************************************************************************)
Minted == {t.tok : t \in tokens}

Altered(tok) ==
    { [tok EXCEPT !.exp = tok.exp + TOKEN_TTL_S],
      [tok EXCEPT !.user = [id |-> tok.user.id, role |-> "admin"], !.iat = tok.iat + 1],
      [tok EXCEPT !.sig = [key |-> OTHER_KEY, content |-> Content(tok)]] }

Forged == JwtSign([id |-> "intruder", role |-> "admin"], OTHER_KEY)

PresentableTokens == Minted \cup UNION {Altered(t) : t \in Minted} \cup {Forged}

Headers ==
    {<<>>, <<"Bearer">>}
      \cup {<<s, t>> : s \in {"Bearer", "Basic"}, t \in PresentableTokens}

(***************************************************************************)
(* Initial state: empty OTP map, nothing sent, nothing stored.  The users  *)
(* collection and the driver's strictQuery setting are fixed at start-up.  *)
(***************************************************************************)
NoRequest == [route |-> "none"]

\* The verify-otp calls that overlap in time, one per client, and the call
\* that has not been made.
Clients == 1..NumClients
NotCalled == [pc |-> "none"]

Init ==
    /\ now = 0
    /\ otpStore = {}
    /\ mailCount = 0
    /\ tokens = {}
    /\ verifying = [c \in Clients |-> NotCalled]
    /\ users \in UserCollections
    /\ strictQuery \in BOOLEAN
    /\ events = {}
    /\ teamMembers = {}
    /\ disk = {}
    /\ nextFile = 1
    /\ req = NoRequest
    /\ res = NoRequest

\* No exchange is in progress: the last response has been handed over.
Idle == req = NoRequest

\* The response of the exchange is handed to the client, which ends the
\* exchange; the server then takes the next request.
Deliver ==
    /\ ~Idle
    /\ req' = NoRequest
    /\ res' = NoRequest
    /\ UNCHANGED <<now, authVars, envVars, resourceVars>>

\* Time passes between two exchanges.
Advance(t) ==
    /\ Idle
    /\ t > now
    /\ now' = t
    /\ UNCHANGED <<req, res, authVars, envVars, resourceVars>>

(***************************************************************************)
(* routes/authRoutes.js                                                    *)
(***************************************************************************)
\* otpStore[email]: the entries stored under the key.
Stored(email) == {e \in otpStore : e.email = email}

\* An assignment that keeps the previous entry next to the new one.
OtpPutKeepingOld(email, otp, expires) ==
    otpStore \cup {[email |-> email, otp |-> otp, expires |-> expires]}

\* otpStore[email] = { otp, expires }
OtpPut(email, otp, expires) ==
    (otpStore \ Stored(email)) \cup {[email |-> email, otp |-> otp, expires |-> expires]}

\* A verify-otp that leaves the entry in the map.
OtpDeleteSkipped(email) == otpStore

\* delete otpStore[email]
OtpDelete(email) == otpStore \ Stored(email)

\* A generate-otp that does not compare the admin secret.
CredentialStatusEmailOnly(email, adminSecret) ==
    IF email # CLUB_EMAIL THEN 400 ELSE 0

\* The two credential checks of generate-otp: the status of the rejection,
\* 0 when both pass.
CredentialStatus(email, adminSecret) ==
    IF email # CLUB_EMAIL THEN 400
    ELSE IF adminSecret # ADMIN_SECRET THEN 401
    ELSE 0

\* A catch block that takes the entry of the email out of the map again.
SendFailedRollingBack(store, email) == {e \in store : e.email # email}

\* The catch block of generate-otp, entered when sendOtpEmail rejects: the
\* map it leaves.
SendFailed(store, email) == store

\* POST /generate-otp.  otp is the value of crypto.randomBytes, sendOk the
\* outcome of transporter.sendMail.  The response record also notes the code
\* issued and the codes of the entries it replaced.
GenerateOtp(email, adminSecret, otp, sendOk) ==
    /\ Idle
    /\ req' = [route |-> "generate-otp", email |-> email, adminSecret |-> adminSecret]
    /\ UNCHANGED <<now, tokens, verifying, envVars, resourceVars>>
    /\ IF CredentialStatus(email, adminSecret) # 0
         THEN /\ res' = [route |-> "generate-otp", status |-> CredentialStatus(email, adminSecret)]
              /\ UNCHANGED <<otpStore, mailCount>>
         ELSE /\ IF sendOk
                   THEN /\ mailCount < MaxMails
                        /\ otpStore' = OtpPut(email, otp, now + OTP_TTL_MS)
                        /\ mailCount' = mailCount + 1
                        /\ res' = [route |-> "generate-otp", status |-> 200, otp |-> otp,
                                   replaced |-> {e.otp : e \in Stored(email)}]
                   ELSE /\ otpStore' = SendFailed(OtpPut(email, otp, now + OTP_TTL_MS), email)
                        /\ mailCount' = mailCount
                        /\ res' = [route |-> "generate-otp", status |-> 500, otp |-> otp,
                                   replaced |-> {e.otp : e \in Stored(email)}]

\* A check that never looks at the expiry.
OtpRejectedIgnoringExpiry(email, otp) ==
    \/ Stored(email) = {}
    \/ \E e \in Stored(email) : e.otp # otp

\* The check of verify-otp: TRUE when the request is answered 400.
OtpRejected(email, otp) ==
    \/ Stored(email) = {}
    \/ \E e \in Stored(email) : e.otp # otp \/ now > e.expires

\* A refusal that takes the entry of the email out of the map.
OtpRefusedConsuming(email) == otpStore \ Stored(email)

\* The map after verify-otp answered 400 'Invalid or expired OTP.': the
\* handler returns before the delete.
OtpRefused(email) == otpStore

\* A login that mints whatever the lookup and the signing did.
LoginResponseAlwaysMints(email, dbOk, signOk) ==
    LET found == UserFindOne([email |-> email, role |-> "admin"])
        adminUser == IF found = {}
                       THEN [_id |-> PLACEHOLDER_ID, role |-> "admin"]
                       ELSE CHOOSE d \in found : TRUE
    IN  [status |-> 200, message |-> "Logged in successfully!",
         token |-> {JwtSign(Payload(adminUser), JWT_SECRET)}]

\* The try block of verify-otp, entered once the entry is deleted.  dbOk is
\* FALSE when User.findOne rejects, signOk is FALSE when jwt.sign hands an
\* error to its callback, which throws it into the catch block.
LoginResponse(email, dbOk, signOk) ==
    IF ~dbOk \/ ~signOk
      THEN [status |-> 500, message |-> "Server error during login.", token |-> {}]
      ELSE LET found == UserFindOne([email |-> email, role |-> "admin"])
               adminUser == IF found = {}
                              THEN [_id |-> PLACEHOLDER_ID, role |-> "admin"]
                              ELSE CHOOSE d \in found : TRUE
           IN  [status |-> 200, message |-> "Logged in successfully!",
                token |-> {JwtSign(Payload(adminUser), JWT_SECRET)}]

\* The tokens minted so far, with the one of the response, if any.
MintedWith(response) == tokens \cup {[tok |-> t, at |-> now] : t \in response.token}

\* POST /verify-otp.
VerifyOtp(email, otp, dbOk, signOk) ==
    /\ Idle
    /\ req' = [route |-> "verify-otp", email |-> email, otp |-> otp,
               dbOk |-> dbOk, signOk |-> signOk]
    /\ UNCHANGED <<now, mailCount, verifying, envVars, resourceVars>>
    /\ IF email # CLUB_EMAIL
         THEN /\ res' = [route |-> "verify-otp", status |-> 400, message |-> "Invalid admin email.", token |-> {}]
              /\ UNCHANGED <<otpStore, tokens>>
       ELSE IF OtpRejected(email, otp)
         THEN /\ res' = [route |-> "verify-otp", status |-> 400, message |-> "Invalid or expired OTP.", token |-> {}]
              /\ otpStore' = OtpRefused(email)
              /\ UNCHANGED tokens
       ELSE LET response == LoginResponse(email, dbOk, signOk)
            IN  /\ otpStore' = OtpDelete(email)
                /\ Cardinality(MintedWith(response)) <= MaxTokens
                /\ tokens' = MintedWith(response)
                /\ res' = [route |-> "verify-otp"] @@ response

\* GET /test-protected
TestProtected(header) ==
    /\ Idle
    /\ req' = [route |-> "test-protected", header |-> header]
    /\ res' = [route |-> "test-protected",
               status |-> IF GateStatus(header) = 0 THEN 200 ELSE GateStatus(header),
               authn |-> AuthenticateStatus(header)]
    /\ UNCHANGED <<now, authVars, envVars, resourceVars>>

NextAuth ==
    \/ Deliver
    \/ Idle /\ \E t \in ClockPoints : Advance(t)
    \/ Idle /\ \E email \in Emails, s \in Secrets, otp \in Codes, sendOk \in BOOLEAN :
                  GenerateOtp(email, s, otp, sendOk)
    \/ Idle /\ \E email \in Emails, otp \in Codes, dbOk, signOk \in BOOLEAN :
                  VerifyOtp(email, otp, dbOk, signOk)
    \/ Idle /\ \E h \in Headers : TestProtected(h)

SpecAuth == Init /\ [][NextAuth]_vars

(***************************************************************************)
(* Overlapping verify-otp calls.  Node runs a handler from one await to    *)
(* the next without interruption: the handler of verify-otp up to          *)
(* 'await User.findOne' is one step, the rest of it another, and the steps *)
(* of the calls in progress interleave.  The calls start from the state an *)
(* issuance at time 0 leaves.                                              *)
(***************************************************************************)
\* A first part that passes the check and leaves the entry in the map.
VerifyCheckNoDelete(c, email, otp) ==
    /\ verifying[c] = NotCalled
    /\ UNCHANGED <<now, otpStore, mailCount, tokens, envVars, resourceVars, req, res>>
    /\ IF email # CLUB_EMAIL
         THEN verifying' = [verifying EXCEPT ![c] =
                  [pc |-> "answered", email |-> email, otp |-> otp, status |-> 400,
                   message |-> "Invalid admin email.", token |-> {}]]
       ELSE IF OtpRejected(email, otp)
         THEN verifying' = [verifying EXCEPT ![c] =
                  [pc |-> "answered", email |-> email, otp |-> otp, status |-> 400,
                   message |-> "Invalid or expired OTP.", token |-> {}]]
       ELSE verifying' = [verifying EXCEPT ![c] =
                  [pc |-> "findOne", email |-> email, otp |-> otp]]

\* verify-otp from its start to 'await User.findOne': the email check, the
\* lookup, the comparison and the deletion.
VerifyCheck(c, email, otp) ==
    /\ verifying[c] = NotCalled
    /\ UNCHANGED <<now, mailCount, tokens, envVars, resourceVars, req, res>>
    /\ IF email # CLUB_EMAIL
         THEN /\ otpStore' = otpStore
              /\ verifying' = [verifying EXCEPT ![c] =
                    [pc |-> "answered", email |-> email, otp |-> otp, status |-> 400,
                     message |-> "Invalid admin email.", token |-> {}]]
       ELSE IF OtpRejected(email, otp)
         THEN /\ otpStore' = OtpRefused(email)
              /\ verifying' = [verifying EXCEPT ![c] =
                    [pc |-> "answered", email |-> email, otp |-> otp, status |-> 400,
                     message |-> "Invalid or expired OTP.", token |-> {}]]
       ELSE /\ otpStore' = OtpDelete(email)
            /\ verifying' = [verifying EXCEPT ![c] =
                  [pc |-> "findOne", email |-> email, otp |-> otp]]

\* verify-otp from the result of User.findOne to the response.
VerifyFinish(c, dbOk, signOk) ==
    /\ verifying[c].pc = "findOne"
    /\ UNCHANGED <<now, otpStore, mailCount, envVars, resourceVars, req, res>>
    /\ LET response == LoginResponse(verifying[c].email, dbOk, signOk)
       IN  /\ Cardinality(MintedWith(response)) <= MaxTokens
           /\ tokens' = MintedWith(response)
           /\ verifying' = [verifying EXCEPT ![c] =
                 [pc |-> "answered", email |-> verifying[c].email,
                  otp |-> verifying[c].otp] @@ response]

InitConc ==
    /\ now = 0
    /\ \E otp \in Codes :
          otpStore = {[email |-> CLUB_EMAIL, otp |-> otp, expires |-> OTP_TTL_MS]}
    /\ mailCount = 1
    /\ tokens = {}
    /\ verifying = [c \in Clients |-> NotCalled]
    /\ users \in UserCollections
    /\ strictQuery \in BOOLEAN
    /\ events = {}
    /\ teamMembers = {}
    /\ disk = {}
    /\ nextFile = 1
    /\ req = NoRequest
    /\ res = NoRequest

NextConc ==
    \/ \E t \in ClockPoints : Advance(t)
    \/ \E c \in Clients, email \in Emails, otp \in Codes : VerifyCheck(c, email, otp)
    \/ \E c \in Clients, dbOk, signOk \in BOOLEAN : VerifyFinish(c, dbOk, signOk)

SpecConc == InitConc /\ [][NextConc]_vars

(***************************************************************************)
(* authorizeRoles on its own: the middleware applied to every req.user an  *)
(* earlier middleware could have set and every list of allowed roles.      *)
(***************************************************************************)
RoleNames == {"admin", "member", "editor"}
UserIds == {PLACEHOLDER_ID, "id1", "id2"}

\* req.user: absent, without a role, with an empty role, or with a role.
Identities ==
    {{}} \cup {{[id |-> i]} : i \in UserIds}
         \cup {{[id |-> i, role |-> r]} : i \in UserIds, r \in RoleNames \cup {""}}

\* authorizeRoles(roles)(req, res, next)
RoleGate(user, roles) ==
    /\ Idle
    /\ req' = [route |-> "authorizeRoles", user |-> user, roles |-> roles]
    /\ res' = [route |-> "authorizeRoles"] @@ AuthorizeRoles(user, roles)
    /\ UNCHANGED <<now, authVars, envVars, resourceVars>>

NextRoles ==
    \/ Deliver
    \/ Idle /\ \E user \in Identities, roles \in SUBSET RoleNames : RoleGate(user, roles)

SpecRoles == Init /\ [][NextRoles]_vars

(***************************************************************************)
(* Image values.  A string is modelled by its prefix and a number standing *)
(* for the rest of it; '/uploads/<filename>' has the number of the file.   *)
(* req.file, posterType, posterValue and the like are optional.            *)
(***************************************************************************)
UploadPath(f) == [prefix |-> "/uploads/", name |-> f]
GOOD_URL == [prefix |-> "https://", name |-> 1]
PLAIN_TEXT == [prefix |-> "", name |-> 2]
EVENT_PLACEHOLDER == [prefix |-> "https://via.placeholder.com/300x200?text=No+Poster", name |-> 0]
TEAM_PLACEHOLDER == [prefix |-> "https://via.placeholder.com/150", name |-> 0]

\* A value in the body that spells the path of the first upload.
CALLER_PATH == UploadPath(1)

NoImage == [type |-> {}, value |-> {}]

\* The declared kind and value a request carries in its body.
Declared ==
    { NoImage,
      [type |-> {}, value |-> {GOOD_URL}],
      [type |-> {"url"}, value |-> {}],
      [type |-> {"url"}, value |-> {GOOD_URL}],
      [type |-> {"import"}, value |-> {}],
      [type |-> {"import"}, value |-> {PLAIN_TEXT}],
      [type |-> {"upload"}, value |-> {GOOD_URL}],
      [type |-> {"url"}, value |-> {CALLER_PATH}],
      [type |-> {"upload"}, value |-> {CALLER_PATH}] }

\* path.startsWith('/uploads/')
StartsWithUploads(v) == v.prefix = "/uploads/"

\* config/multerConfig.js: upload.single stores the file of the request
\* under a generated name; the set holds req.file.filename, if any.
Multer(file) == IF file THEN {nextFile} ELSE {}

\* An unlink that is tried again until the file is gone.
UnlinkRetried(d, files, ok) == d \ files

\* fs.unlink on each of the files: the disk afterwards.  The call fails on a
\* file that is not there, or when the file system refuses (ok = FALSE).
Unlink(d, files, ok) == IF ok THEN d \ files ELSE d

\* The files whose unlink failed.
UnlinkFailures(d, files, ok) == IF ok THEN files \ d ELSE files

\* The outcomes fs.unlink can have on the files.
UnlinkOutcomes(d, files) == IF files \cap d = {} THEN {TRUE} ELSE BOOLEAN

\* deleteOldPoster / deleteOldPhoto: the files it calls fs.unlink on.
DeleteOld(value) == {v.name : v \in {w \in value : StartsWithUploads(w)}}

\* The id given to a new document.
NewId(coll) == CHOOSE i \in 1..MaxDocs : \A d \in coll : d._id # i

\* Room for one more document, and for the file of the request.
CanCreate == Cardinality(events) + Cardinality(teamMembers) < MaxDocs
CanUpload(file) == file => nextFile <= MaxFiles

\* The request as recorded: a request stopped by the middleware is recorded
\* with its header and file only.
Recorded(route, r) ==
    IF GateStatus(r.header) # 0
      THEN [route |-> route, header |-> r.header, file |-> r.file]
      ELSE [route |-> route] @@ r

\* The response, with what the handler did to the uploads directory (the
\* file multer stored, the files fs.unlink was called on, those it failed
\* on) and how the store took the handler's write (save, findByIdAndUpdate,
\* findByIdAndDelete): not attempted, done, failed or refused by the schema.
Response(route, status, uploaded, calls, failed, write) ==
    [route |-> route, status |-> status, uploaded |-> uploaded,
     unlinkCalls |-> calls, unlinkFailed |-> failed, write |-> write]

\* The handler answers after calling fs.unlink on the files and after the
\* write to the store.
AnswerWrite(route, status, uploaded, d, calls, write) ==
    \E ok \in UnlinkOutcomes(d, calls) :
       /\ disk' = Unlink(d, calls, ok)
       /\ res' = Response(route, status, uploaded, calls, UnlinkFailures(d, calls, ok), write)

\* The handler answers after calling fs.unlink on the files, without having
\* come to its write.
Answer(route, status, uploaded, d, calls) ==
    AnswerWrite(route, status, uploaded, d, calls, "none")

\* A protected route answered by authenticateToken or authorizeRoles, which
\* run before upload.single.
Denied(route, r) ==
    /\ Idle
    /\ GateStatus(r.header) # 0
    /\ req' = Recorded(route, r)
    /\ res' = Response(route, GateStatus(r.header), {}, {}, {}, "none")
    /\ UNCHANGED <<now, authVars, envVars, resourceVars>>

(***************************************************************************)
(* routes/eventRoutes.js                                                   *)
(***************************************************************************)
\* POST /: a declared url that wins over the uploaded file.
CreatePosterUrlFirst(file, posterType, posterValue) ==
    IF posterType = {"url"} /\ posterValue # {}
      THEN [type |-> "url", value |-> posterValue]
    ELSE IF file # {}
      THEN [type |-> "upload", value |-> {UploadPath(f) : f \in file}]
    ELSE [type |-> "url", value |-> {EVENT_PLACEHOLDER}]

\* POST /: the poster stored for the new event.
CreatePoster(file, posterType, posterValue) ==
    IF file # {}
      THEN [type |-> "upload", value |-> {UploadPath(f) : f \in file}]
    ELSE IF posterType = {"url"} /\ posterValue # {}
      THEN [type |-> "url", value |-> posterValue]
    ELSE [type |-> "url", value |-> {EVENT_PLACEHOLDER}]

\* models/Event.js: the validator of the speakers path, on the parsed list
\* (an absent field parses to the empty list).
SpeakersValid(speakers) == speakers = "valid"

\* POST /api/events.  The write to the store succeeds or fails.
EventPost(r) ==
    \/ Denied("POST /events", r)
    \/ /\ Idle
       /\ GateStatus(r.header) = 0
       /\ CanUpload(r.file)
       /\ req' = Recorded("POST /events", r)
       /\ UNCHANGED <<now, authVars, envVars, teamMembers>>
       /\ LET file == Multer(r.file)
              disk1 == disk \cup file
              poster == CreatePoster(file, r.image.type, r.image.value)
          IN  /\ nextFile' = nextFile + Cardinality(file)
              /\ IF r.body = "missingRequired"
                   THEN /\ Answer("POST /events", 400, file, disk1, file)
                        /\ events' = events
                 ELSE IF r.speakers = "malformed"
                   THEN /\ Answer("POST /events", 400, file, disk1, {})
                        /\ events' = events
                 ELSE IF ~SpeakersValid(r.speakers) \/ r.body = "schemaInvalid"
                   THEN /\ AnswerWrite("POST /events", 400, file, disk1, {}, "invalid")
                        /\ events' = events
                 ELSE \/ /\ AnswerWrite("POST /events", 500, file, disk1, {}, "failed")
                         /\ events' = events
                      \/ /\ CanCreate
                         /\ AnswerWrite("POST /events", 201, file, disk1, {}, "ok")
                         /\ events' = events \cup {[_id |-> NewId(events), poster |-> poster]}

\* PUT /:id answers 400 'Invalid poster type specified for update.'
PosterTypeRefused(file, image) ==
    file = {} /\ image.type # {} /\ image.type # {"url"}

\* An update that deletes the old poster only when a new file arrives.
PutPosterOldOnFileOnly(existing, file, image) ==
    IF file # {} THEN DeleteOld(existing.value) ELSE {}

\* PUT /:id: the files deleteOldPoster is called on.
PutPosterOld(existing, file, image) ==
    IF file # {}
      THEN DeleteOld(existing.value)
    ELSE IF image.type = {"url"} /\ existing.type = "upload"
      THEN DeleteOld(existing.value)
    ELSE {}

\* PUT /:id: the poster of the event after the update.
PutPoster(existing, file, image) ==
    IF file # {}
      THEN [type |-> "upload", value |-> {UploadPath(f) : f \in file}]
    ELSE IF image.type = {"url"}
      THEN [type |-> "url", value |-> image.value]
    ELSE existing

\* PUT /api/events/:id.  id 0 is an id that is not an ObjectId; findById
\* and findByIdAndUpdate succeed or fail.
EventPut(r) ==
    \/ Denied("PUT /events", r)
    \/ /\ Idle
       /\ GateStatus(r.header) = 0
       /\ CanUpload(r.file)
       /\ req' = Recorded("PUT /events", r)
       /\ UNCHANGED <<now, authVars, envVars, teamMembers>>
       /\ LET file == Multer(r.file)
              disk1 == disk \cup file
              found == {e \in events : e._id = r.id}
          IN  /\ nextFile' = nextFile + Cardinality(file)
              /\ IF r.id = 0
                   THEN /\ Answer("PUT /events", 400, file, disk1, {})
                        /\ events' = events
                 ELSE \/ /\ Answer("PUT /events", 500, file, disk1, {})
                         /\ events' = events
                      \/ IF found = {}
                           THEN /\ Answer("PUT /events", 404, file, disk1, file)
                                /\ events' = events
                         ELSE IF r.speakers = "malformed"
                           THEN /\ Answer("PUT /events", 400, file, disk1, {})
                                /\ events' = events
                         ELSE IF PosterTypeRefused(file, r.image)
                           THEN /\ Answer("PUT /events", 400, file, disk1, {})
                                /\ events' = events
                         ELSE LET existingEvent == CHOOSE e \in found : TRUE
                                  old == PutPosterOld(existingEvent.poster, file, r.image)
                                  poster == PutPoster(existingEvent.poster, file, r.image)
                              IN  IF r.speakers = "empty" \/ r.body = "schemaInvalid"
                                    THEN /\ AnswerWrite("PUT /events", 400, file, disk1, old, "invalid")
                                         /\ events' = events
                                    ELSE \/ /\ AnswerWrite("PUT /events", 500, file, disk1, old, "failed")
                                            /\ events' = events
                                         \/ /\ AnswerWrite("PUT /events", 200, file, disk1, old, "ok")
                                            /\ events' = (events \ found)
                                                 \cup {[existingEvent EXCEPT !.poster = poster]}

\* A delete that hands the stored value to deleteOldPoster / deleteOldPhoto
\* whatever the kind.
DeleteCascadeAnyKind(image) == DeleteOld(image.value)

\* DELETE /:id: the files deleteOldPoster / deleteOldPhoto is called on.
DeleteCascade(image) ==
    IF image.type = "upload" /\ image.value # {}
      THEN DeleteOld(image.value)
      ELSE {}

\* DELETE /api/events/:id
EventDelete(r) ==
    \/ Denied("DELETE /events", r)
    \/ /\ Idle
       /\ GateStatus(r.header) = 0
       /\ req' = Recorded("DELETE /events", r)
       /\ UNCHANGED <<now, authVars, envVars, teamMembers, nextFile>>
       /\ LET found == {e \in events : e._id = r.id}
          IN  IF r.id = 0
                THEN /\ Answer("DELETE /events", 400, {}, disk, {})
                     /\ events' = events
              ELSE \/ /\ Answer("DELETE /events", 500, {}, disk, {})
                      /\ events' = events
                   \/ IF found = {}
                        THEN /\ Answer("DELETE /events", 404, {}, disk, {})
                             /\ events' = events
                      ELSE LET event == CHOOSE e \in found : TRUE
                               old == DeleteCascade(event.poster)
                           IN  \/ /\ AnswerWrite("DELETE /events", 500, {}, disk, old, "failed")
                                  /\ events' = events
                               \/ /\ AnswerWrite("DELETE /events", 200, {}, disk, old, "ok")
                                  /\ events' = events \ found

(***************************************************************************)
(* routes/teamRoutes.js                                                    *)
(***************************************************************************)
\* POST /: a create that stores the declared kind with the supplied value.
CreatePhotoDeclaredKind(file, photoType, photoValue) ==
    IF file # {}
      THEN [type |-> "upload", value |-> {UploadPath(f) : f \in file}]
    ELSE IF photoType # {} /\ photoValue # {}
      THEN [type |-> CHOOSE t \in photoType : TRUE, value |-> photoValue]
    ELSE [type |-> "url", value |-> {TEAM_PLACEHOLDER}]

\* POST /: the photo stored for the new team member.
CreatePhoto(file, photoType, photoValue) ==
    IF file # {}
      THEN [type |-> "upload", value |-> {UploadPath(f) : f \in file}]
    ELSE IF photoType = {"url"} /\ photoValue # {}
      THEN [type |-> "url", value |-> photoValue]
    ELSE IF photoType = {"import"} /\ photoValue # {}
      THEN [type |-> "import", value |-> photoValue]
    ELSE [type |-> "url", value |-> {TEAM_PLACEHOLDER}]

\* POST /api/team-members
TeamPost(r) ==
    \/ Denied("POST /team-members", r)
    \/ /\ Idle
       /\ GateStatus(r.header) = 0
       /\ CanUpload(r.file)
       /\ req' = Recorded("POST /team-members", r)
       /\ UNCHANGED <<now, authVars, envVars, events>>
       /\ LET file == Multer(r.file)
              disk1 == disk \cup file
              photo == CreatePhoto(file, r.image.type, r.image.value)
          IN  /\ nextFile' = nextFile + Cardinality(file)
              /\ IF r.body = "missingRequired"
                   THEN /\ Answer("POST /team-members", 400, file, disk1, file)
                        /\ teamMembers' = teamMembers
                 ELSE IF r.body = "schemaInvalid"
                   THEN /\ AnswerWrite("POST /team-members", 400, file, disk1, {}, "invalid")
                        /\ teamMembers' = teamMembers
                 ELSE \/ /\ AnswerWrite("POST /team-members", 500, file, disk1, {}, "failed")
                         /\ teamMembers' = teamMembers
                      \/ /\ CanCreate
                         /\ AnswerWrite("POST /team-members", 201, file, disk1, {}, "ok")
                         /\ teamMembers' = teamMembers
                               \cup {[_id |-> NewId(teamMembers), photo |-> photo]}

\* PUT /:id answers 400 'Invalid photo type specified for update.'
PhotoTypeRefused(file, image) ==
    file = {} /\ image.type # {} /\ image.type # {"url"} /\ image.type # {"import"}

\* PUT /:id: the files deleteOldPhoto is called on.
PutPhotoOld(existing, file, image) ==
    IF file # {}
      THEN DeleteOld(existing.value)
    ELSE IF image.type \in {{"url"}, {"import"}} /\ existing.type = "upload"
      THEN DeleteOld(existing.value)
    ELSE {}

\* An update that takes a missing kind for url.
PutPhotoDefaultUrl(existing, file, image) ==
    IF file # {}
      THEN [type |-> "upload", value |-> {UploadPath(f) : f \in file}]
    ELSE IF image.type = {"import"}
      THEN [type |-> "import", value |-> image.value]
    ELSE [type |-> "url", value |-> image.value]

\* PUT /:id: the photo of the team member after the update.
PutPhoto(existing, file, image) ==
    IF file # {}
      THEN [type |-> "upload", value |-> {UploadPath(f) : f \in file}]
    ELSE IF image.type = {"url"}
      THEN [type |-> "url", value |-> image.value]
    ELSE IF image.type = {"import"}
      THEN [type |-> "import", value |-> image.value]
    ELSE existing

\* PUT /api/team-members/:id
TeamPut(r) ==
    \/ Denied("PUT /team-members", r)
    \/ /\ Idle
       /\ GateStatus(r.header) = 0
       /\ CanUpload(r.file)
       /\ req' = Recorded("PUT /team-members", r)
       /\ UNCHANGED <<now, authVars, envVars, events>>
       /\ LET file == Multer(r.file)
              disk1 == disk \cup file
              found == {m \in teamMembers : m._id = r.id}
          IN  /\ nextFile' = nextFile + Cardinality(file)
              /\ IF r.id = 0
                   THEN /\ Answer("PUT /team-members", 400, file, disk1, {})
                        /\ teamMembers' = teamMembers
                 ELSE \/ /\ Answer("PUT /team-members", 500, file, disk1, {})
                         /\ teamMembers' = teamMembers
                      \/ IF found = {}
                           THEN /\ Answer("PUT /team-members", 404, file, disk1, file)
                                /\ teamMembers' = teamMembers
                         ELSE IF PhotoTypeRefused(file, r.image)
                           THEN /\ Answer("PUT /team-members", 400, file, disk1, {})
                                /\ teamMembers' = teamMembers
                         ELSE LET existingTeamMember == CHOOSE m \in found : TRUE
                                  old == PutPhotoOld(existingTeamMember.photo, file, r.image)
                                  photo == PutPhoto(existingTeamMember.photo, file, r.image)
                              IN  IF r.body = "schemaInvalid"
                                    THEN /\ AnswerWrite("PUT /team-members", 400, file, disk1, old, "invalid")
                                         /\ teamMembers' = teamMembers
                                    ELSE \/ /\ AnswerWrite("PUT /team-members", 500, file, disk1, old, "failed")
                                            /\ teamMembers' = teamMembers
                                         \/ /\ AnswerWrite("PUT /team-members", 200, file, disk1, old, "ok")
                                            /\ teamMembers' = (teamMembers \ found)
                                                 \cup {[existingTeamMember EXCEPT !.photo = photo]}

\* DELETE /api/team-members/:id
TeamDelete(r) ==
    \/ Denied("DELETE /team-members", r)
    \/ /\ Idle
       /\ GateStatus(r.header) = 0
       /\ req' = Recorded("DELETE /team-members", r)
       /\ UNCHANGED <<now, authVars, envVars, events, nextFile>>
       /\ LET found == {m \in teamMembers : m._id = r.id}
          IN  IF r.id = 0
                THEN /\ Answer("DELETE /team-members", 400, {}, disk, {})
                     /\ teamMembers' = teamMembers
              ELSE \/ /\ Answer("DELETE /team-members", 500, {}, disk, {})
                      /\ teamMembers' = teamMembers
                   \/ IF found = {}
                        THEN /\ Answer("DELETE /team-members", 404, {}, disk, {})
                             /\ teamMembers' = teamMembers
                      ELSE LET teamMember == CHOOSE m \in found : TRUE
                               old == DeleteCascade(teamMember.photo)
                           IN  \/ /\ AnswerWrite("DELETE /team-members", 500, {}, disk, old, "failed")
                                  /\ teamMembers' = teamMembers
                               \/ /\ AnswerWrite("DELETE /team-members", 200, {}, disk, old, "ok")
                                  /\ teamMembers' = teamMembers \ found

(***************************************************************************)
(* The requests of the resource routes.  The requests whose header is      *)
(* 'Bearer <token>' and passes the middleware vary in all their fields;    *)
(* the requests with any other header, stopped by the middleware or not,   *)
(* vary in the header and in whether they carry a file.                    *)
(***************************************************************************)
Ids == 0..MaxDocs

PassingHeaders == {h \in Headers : GateStatus(h) = 0}
BearerHeaders == {h \in PassingHeaders : h[1] = "Bearer"}

Plain(fields) ==
    {[header |-> h, file |-> f] @@ fields : h \in Headers \ BearerHeaders, f \in BOOLEAN}

EventPostRequests ==
    Plain([body |-> "ok", speakers |-> "valid", image |-> NoImage])
      \cup {[header |-> h, file |-> f, body |-> b[1], speakers |-> b[2], image |-> i] :
              h \in BearerHeaders, f \in BOOLEAN, i \in Declared,
              b \in {<<"ok", "valid">>, <<"missingRequired", "valid">>,
                     <<"schemaInvalid", "valid">>, <<"ok", "malformed">>,
                     <<"ok", "empty">>}}

EventPutRequests ==
    Plain([id |-> 1, body |-> "ok", speakers |-> "absent", image |-> NoImage])
      \cup {[header |-> h, file |-> f, id |-> id, body |-> b[1], speakers |-> b[2], image |-> i] :
              h \in BearerHeaders, f \in BOOLEAN, id \in Ids, i \in Declared,
              b \in {<<"ok", "absent">>, <<"schemaInvalid", "absent">>,
                     <<"ok", "malformed">>, <<"ok", "empty">>}}

TeamPostRequests ==
    Plain([body |-> "ok", image |-> NoImage])
      \cup {[header |-> h, file |-> f, body |-> b, image |-> i] :
              h \in BearerHeaders, f \in BOOLEAN, i \in Declared,
              b \in {"ok", "missingRequired", "schemaInvalid"}}

TeamPutRequests ==
    Plain([id |-> 1, body |-> "ok", image |-> NoImage])
      \cup {[header |-> h, file |-> f, id |-> id, body |-> b, image |-> i] :
              h \in BearerHeaders, f \in BOOLEAN, id \in Ids, i \in Declared,
              b \in {"ok", "schemaInvalid"}}

DeleteRequests ==
    {[header |-> h, file |-> FALSE, id |-> id] : h \in Headers, id \in Ids}

\* The generated file names carry the time and a random number: a body can
\* spell the path of an upload only after the server has generated it.
Spellable(r) == \A v \in r.image.value : StartsWithUploads(v) => v.name < nextFile

(***************************************************************************)
(* The resource routes are explored from the state a first login leaves:   *)
(* generate-otp and verify-otp with the admin credentials at time 0.       *)
(***************************************************************************)
InitRes ==
    /\ now = 0
    /\ otpStore = {}
    /\ mailCount = 1
    /\ verifying = [c \in Clients |-> NotCalled]
    /\ users \in UserCollections
    /\ strictQuery \in BOOLEAN
    /\ req = NoRequest
    /\ res = NoRequest
    /\ LET found == UserFindOne([email |-> CLUB_EMAIL, role |-> "admin"])
           adminUser == IF found = {}
                          THEN [_id |-> PLACEHOLDER_ID, role |-> "admin"]
                          ELSE CHOOSE d \in found : TRUE
           token == JwtSign(Payload(adminUser), JWT_SECRET)
       IN  tokens = {[tok |-> token, at |-> 0]}
    /\ events = {}
    /\ teamMembers = {}
    /\ disk = {}
    /\ nextFile = 1

NextRes ==
    \/ Deliver
    \/ Idle /\ Advance(TOKEN_TTL_S * 1000)
    \/ Idle /\ \E r \in EventPostRequests : Spellable(r) /\ EventPost(r)
    \/ Idle /\ \E r \in EventPutRequests : Spellable(r) /\ EventPut(r)
    \/ Idle /\ \E r \in DeleteRequests : EventDelete(r)
    \/ Idle /\ \E r \in TeamPostRequests : Spellable(r) /\ TeamPost(r)
    \/ Idle /\ \E r \in TeamPutRequests : Spellable(r) /\ TeamPut(r)
    \/ Idle /\ \E r \in DeleteRequests : TeamDelete(r)

SpecRes == InitRes /\ [][NextRes]_vars

\* ---- properties ----
(***************************************************************************)
(* Properties of the OTP login and of the token checks (SpecAuth).         *)
(***************************************************************************)
VerifyStep == req'.route = "verify-otp" /\ req'.email = CLUB_EMAIL

\* The entry under the admin email, before the step, holds the submitted code.
CodeMatchesEntry == \E e \in otpStore : e.email = CLUB_EMAIL /\ e.otp = req'.otp

\* Every issuance stores an expiry of issue time plus 10 minutes.
IssuanceSetsTenMinuteExpiry ==
    (req'.route = "generate-otp" /\ res'.status \in {200, 500})
       => \A e \in otpStore' : e.expires = now' + 600000

\* C1: a verify-otp carrying the stored code no later than 10 minutes after
\* the issuance passes the OTP check (200 with a token unless the account
\* lookup or the signing fails) and consumes the entry; with the entry consumed and no new
\* issuance, a verify-otp is answered 400 'Invalid or expired OTP.'.
C1_OtpSingleUse ==
    [][ /\ IssuanceSetsTenMinuteExpiry
        /\ VerifyStep =>
             /\ (\E e \in otpStore : e.email = CLUB_EMAIL /\ e.otp = req'.otp
                                        /\ now' <= e.expires)
                  => /\ res'.status = (IF req'.dbOk /\ req'.signOk THEN 200 ELSE 500)
                     /\ (res'.status = 200 => res'.token # {})
                     /\ \A e \in otpStore' : e.email # CLUB_EMAIL
             /\ (\A e \in otpStore : e.email # CLUB_EMAIL)
                  => /\ res'.status = 400
                     /\ res'.message = "Invalid or expired OTP."
                     /\ res'.token = {} ]_vars

\* A verify-otp answered 400 after the code was used and the entry consumed.
C1_Witness ==
    /\ req.route = "verify-otp" /\ req.email = CLUB_EMAIL
    /\ res.status = 400
    /\ tokens # {}
    /\ otpStore = {}

\* C2: a verify-otp made after the entry's expiry (issue time plus 10
\* minutes) fails, with the right code as with a wrong one, mints nothing
\* and returns no token.
C2_OtpExpiry ==
    [][ /\ IssuanceSetsTenMinuteExpiry
        /\ (VerifyStep /\ \E e \in otpStore : e.email = CLUB_EMAIL /\ now' > e.expires)
             => /\ res'.status = 400
                /\ res'.token = {}
                /\ tokens' = tokens ]_vars

\* The right code, submitted after the expiry, was refused.
C2_Witness ==
    /\ req.route = "verify-otp" /\ req.email = CLUB_EMAIL
    /\ \E e \in otpStore : e.email = CLUB_EMAIL /\ e.otp = req.otp /\ now > e.expires
    /\ res.status = 400

\* C4: every token returned by a successful verify-otp carries role admin
\* and, presented at once as 'Bearer <token>', passes authenticateToken and
\* authorizeRoles(['admin']).
C4_TokenIsAdmin ==
    (res.route = "verify-otp" /\ res.status = 200)
       => \A t \in res.token :
             /\ "role" \in DOMAIN t.user
             /\ t.user.role = "admin"
             /\ GateStatus(<<"Bearer", t>>) = 0

\* The signature of a token is the server's, over the token as presented.
SignedByServer(tok) ==
    tok.sig = [key |-> JWT_SECRET, content |-> <<tok.user, tok.iat, tok.exp>>]

\* C5: jwt verification of a presented token succeeds exactly when the
\* signature is the server's and the time is before issue time plus one
\* hour; a minted token is refused with 401 from one hour after minting, and
\* an altered token is always refused.
C5_TokenValidity ==
    [][ (req'.route = "test-protected" /\ Len(req'.header) = 2) =>
          LET tok == req'.header[2] IN
          /\ (res'.authn = 0) <=>
                (SignedByServer(tok) /\ now' < tok.iat * 1000 + 3600000)
          /\ (\E m \in tokens : m.tok = tok /\ now' >= m.at + 3600000)
                => res'.status = 401
          /\ (\E m \in tokens : tok \in Altered(m.tok) \ Minted)
                => res'.status = 401 ]_vars

\* A minted token, presented an hour or more after its iat, was refused.
C5_Witness ==
    /\ req.route = "test-protected" /\ Len(req.header) = 2
    /\ \E m \in tokens : m.tok = req.header[2] /\ now >= m.tok.iat * 1000 + 3600000
    /\ res.status = 401

\* C6: the OTP map never holds two entries for one email, and an issuance
\* leaves no entry with a replaced code that differs from the new one, so
\* that only the new code can pass the check.
C6_OneOtpPerEmail ==
    /\ [](\A e1, e2 \in otpStore : e1.email = e2.email => e1 = e2)
    /\ [][ /\ (req'.route = "generate-otp" /\ res'.status \in {200, 500})
               => /\ \A c \in res'.replaced \ {res'.otp} :
                        \A e \in otpStore' : e.otp # c
                  /\ otpStore' = {[email |-> CLUB_EMAIL, otp |-> res'.otp,
                                   expires |-> now' + 600000]}
           /\ (VerifyStep /\ res'.status # 400) => CodeMatchesEntry ]_vars

\* A second issuance replaced an entry that held a different code.
C6_Witness ==
    /\ res.route = "generate-otp" /\ res.status = 200
    /\ res.replaced # {}
    /\ res.otp \notin res.replaced

\* C7: generate-otp with a wrong email is answered 400, with the right
\* email and a wrong secret 401; neither touches the OTP map nor sends mail,
\* and an issuance happens only with both right.
C7_GenerateRejects ==
    [][ req'.route = "generate-otp" =>
          /\ req'.email # CLUB_EMAIL => res'.status = 400
          /\ (req'.email = CLUB_EMAIL /\ req'.adminSecret # ADMIN_SECRET)
                => res'.status = 401
          /\ (req'.email # CLUB_EMAIL \/ req'.adminSecret # ADMIN_SECRET)
                => (otpStore' = otpStore /\ mailCount' = mailCount)
          /\ (otpStore' # otpStore \/ mailCount' # mailCount)
                => (req'.email = CLUB_EMAIL /\ req'.adminSecret = ADMIN_SECRET) ]_vars

\* A wrong secret was refused while an entry was stored.
C7_Witness ==
    /\ req.route = "generate-otp"
    /\ req.email = CLUB_EMAIL /\ req.adminSecret = WRONG_SECRET
    /\ res.status = 401
    /\ otpStore # {}

\* C16: a generate-otp with the right email and secret whose mail is not
\* sent is answered 500 and leaves the new code stored with an expiry of
\* issue time plus 10 minutes, so that the check of verify-otp passes for
\* that code; and a verify-otp with a stored code, made no later than the
\* expiry, passes the check whether or not the code was ever delivered.
C16_SendFailureKeepsOtp ==
    [][ /\ (req'.route = "generate-otp" /\ req'.email = CLUB_EMAIL
              /\ req'.adminSecret = ADMIN_SECRET /\ mailCount' = mailCount)
           => /\ res'.status = 500
              /\ otpStore' = {[email |-> CLUB_EMAIL, otp |-> res'.otp,
                               expires |-> now' + 600000]}
        /\ (req'.route = "generate-otp" /\ res'.status = 500)
           => /\ mailCount' = mailCount
              /\ \E e \in otpStore' : e.email = CLUB_EMAIL /\ e.otp = res'.otp
                                        /\ now' <= e.expires
        /\ (VerifyStep /\ \E e \in otpStore : e.email = CLUB_EMAIL /\ e.otp = req'.otp
                                                /\ now' <= e.expires)
           => /\ res'.status = (IF req'.dbOk /\ req'.signOk THEN 200 ELSE 500)
              /\ res'.message # "Invalid or expired OTP." ]_vars

\* A token was returned for a code although no mail has ever been sent.
C16_Witness ==
    /\ req.route = "verify-otp" /\ res.status = 200 /\ res.token # {}
    /\ mailCount = 0

\* C19: a verify-otp with a wrong email, with no entry stored, with a wrong
\* code or after the expiry is answered 400 and leaves the OTP map and the
\* tokens as they were, the expired entry included; so an entry stays until
\* it is verified or replaced, and the stored code, submitted no later than
\* the expiry, passes the check whatever attempts failed before.
C19_FailedVerifyKeepsMap ==
    [][ req'.route = "verify-otp" =>
          /\ (\/ req'.email # CLUB_EMAIL
              \/ \A e \in otpStore : e.email # req'.email
              \/ \E e \in otpStore : e.email = req'.email
                                      /\ (e.otp # req'.otp \/ now' > e.expires))
                => res'.status = 400
          /\ res'.status = 400 => (otpStore' = otpStore /\ tokens' = tokens /\ res'.token = {})
          /\ (req'.email = CLUB_EMAIL
                /\ \E e \in otpStore : e.email = CLUB_EMAIL /\ e.otp = req'.otp
                                        /\ now' <= e.expires)
                => res'.status # 400 ]_vars

\* A wrong code was refused and the entry with the other code is still
\* stored, unexpired.
C19_Witness ==
    /\ req.route = "verify-otp" /\ req.email = CLUB_EMAIL
    /\ res.status = 400
    /\ \E e \in otpStore : e.email = CLUB_EMAIL /\ e.otp # req.otp /\ now <= e.expires

\* C20: a verify-otp that passes the OTP check leaves no entry for the
\* email, whatever follows; when the account lookup or the signing then
\* fails it is answered 500 without a token and mints nothing; with no entry
\* stored a verify-otp is answered 400, and only generate-otp stores one.
C20_ConsumedBeforeMint ==
    [][ /\ (VerifyStep /\ \E e \in otpStore : e.email = CLUB_EMAIL /\ e.otp = req'.otp
                                                /\ now' <= e.expires)
             => /\ \A e \in otpStore' : e.email # CLUB_EMAIL
                /\ (~req'.dbOk \/ ~req'.signOk)
                      => (res'.status = 500 /\ res'.token = {} /\ tokens' = tokens)
        /\ (VerifyStep /\ \A e \in otpStore : e.email # CLUB_EMAIL)
             => (res'.status = 400 /\ otpStore' = otpStore)
        /\ ~(otpStore' \subseteq otpStore) => req'.route = "generate-otp" ]_vars

\* The signing failed after the check passed: 500, no token, and the entry
\* is gone.
C20_Witness ==
    /\ req.route = "verify-otp" /\ req.email = CLUB_EMAIL
    /\ req.dbOk /\ ~req.signOk
    /\ res.status = 500 /\ res.token = {}
    /\ otpStore = {}
    /\ tokens = {}

(***************************************************************************)
(* Properties of overlapping verify-otp calls (SpecConc).                  *)
(***************************************************************************)
\* The call of the client has passed the OTP check.
Passed(c) ==
    \/ verifying[c].pc = "findOne"
    \/ verifying[c].pc = "answered" /\ verifying[c].status # 400

\* C18: of the verify-otp calls that overlap against one stored entry at
\* most one passes the OTP check; the step in which a call passes finds the
\* entry with the submitted code, unexpired, and leaves the map without it;
\* and a call that starts once another has passed is answered 400 in its
\* first step.
C18_AtMostOnePasses ==
    /\ [](Cardinality({c \in Clients : Passed(c)}) <= 1)
    /\ [][ \A c \in Clients :
              (verifying[c] = NotCalled /\ verifying'[c] # NotCalled) =>
                 /\ verifying'[c].pc = "findOne" =>
                       /\ \E e \in otpStore : /\ e.email = verifying'[c].email
                                              /\ e.otp = verifying'[c].otp
                                              /\ now <= e.expires
                       /\ \A e \in otpStore' : e.email # verifying'[c].email
                 /\ (\E d \in Clients \ {c} : Passed(d)) =>
                       /\ verifying'[c].pc = "answered"
                       /\ verifying'[c].status = 400 ]_vars

\* While one call that passed the check awaits the account lookup, another
\* call with the same code, made before the expiry, has been answered 400.
C18_Witness ==
    \E c, d \in Clients :
       /\ verifying[c].pc = "findOne"
       /\ verifying[d].pc = "answered" /\ verifying[d].status = 400
       /\ verifying[d].email = verifying[c].email
       /\ verifying[d].otp = verifying[c].otp
       /\ now <= OTP_TTL_MS

(***************************************************************************)
(* Properties of the event and team member routes (SpecRes).               *)
(***************************************************************************)
CreateRoutes == {"POST /events", "POST /team-members"}
UpdateRoutes == {"PUT /events", "PUT /team-members"}
DeleteRoutes == {"DELETE /events", "DELETE /team-members"}

\* The header is 'Bearer <token>' and the token is signed by the server,
\* unexpired at time t, with role admin.
BearerAdmin(header, t) ==
    /\ Len(header) = 2
    /\ header[1] = "Bearer"
    /\ SignedByServer(header[2])
    /\ t < header[2].exp * 1000
    /\ "role" \in DOMAIN header[2].user
    /\ header[2].user.role = "admin"

\* C3: a request to an admin-only route changes the store or the uploads
\* directory only if its header is 'Bearer <token>' with a token that is
\* validly signed, unexpired and of role admin; a request answered 401 or
\* 403 leaves records and files as they were.
C3_AdminOnlyMutation ==
    [][ (req'.route \in CreateRoutes \cup UpdateRoutes \cup DeleteRoutes) =>
          /\ (events' # events \/ teamMembers' # teamMembers \/ disk' # disk)
                => BearerAdmin(req'.header, now')
          /\ res'.status \in {401, 403}
                => (events' = events /\ teamMembers' = teamMembers /\ disk' = disk) ]_vars

\* C8: a create or update answered 400 has had the file uploaded for it
\* deleted: fs.unlink was called on it and, unless that call failed, the
\* file is not in the uploads directory.
C8_ValidationRollback ==
    (res.route \in CreateRoutes \cup UpdateRoutes /\ res.status = 400)
       => /\ res.uploaded \subseteq res.unlinkCalls
          /\ res.unlinkFailed = {} => res.uploaded \cap disk = {}

\* The image a create request is to store, by the priority of the claim.
PriorityImage(route, uploaded, image) ==
    IF uploaded # {}
      THEN [type |-> "upload",
            value |-> {[prefix |-> "/uploads/", name |-> f] : f \in uploaded}]
    ELSE IF image.type = {"url"} /\ image.value # {}
      THEN [type |-> "url", value |-> image.value]
    ELSE IF route = "POST /team-members" /\ image.type = {"import"} /\ image.value # {}
      THEN [type |-> "import", value |-> image.value]
    ELSE IF route = "POST /team-members"
      THEN [type |-> "url",
            value |-> {[prefix |-> "https://via.placeholder.com/150", name |-> 0]}]
    ELSE [type |-> "url",
          value |-> {[prefix |-> "https://via.placeholder.com/300x200?text=No+Poster",
                      name |-> 0]}]

\* C9: a successful create stores exactly one new record, whose image is the
\* uploaded file if there is one, else the declared url with its value, else
\* (team members) the declared import with its value, else the placeholder
\* url; the file of the request is uploaded exactly when it carries one.
C9_CreateImagePriority ==
    [][ (req'.route \in CreateRoutes /\ res'.status = 201) =>
          /\ (res'.uploaded # {}) <=> req'.file
          /\ req'.route = "POST /events" =>
                /\ teamMembers' = teamMembers
                /\ \E e \in events' \ events :
                      /\ events' = events \cup {e}
                      /\ e.poster = PriorityImage(req'.route, res'.uploaded, req'.image)
          /\ req'.route = "POST /team-members" =>
                /\ events' = events
                /\ \E m \in teamMembers' \ teamMembers :
                      /\ teamMembers' = teamMembers \cup {m}
                      /\ m.photo = PriorityImage(req'.route, res'.uploaded, req'.image) ]_vars

\* An event was created from a request carrying both a file and a declared
\* url: the stored poster is the upload.
C9_Witness ==
    /\ req.route = "POST /events" /\ res.status = 201
    /\ req.file /\ req.image.type = {"url"} /\ req.image.value # {}
    /\ \E e \in events : e.poster.type = "upload"

\* The files named by an image of kind upload.
FilesOf(image) == {v.name : v \in image.value}

\* The update supersedes the stored upload: it brings a file, or it declares
\* url, or import for a team member.
Supersedes(route, request) ==
    \/ request.file
    \/ request.image.type = {"url"}
    \/ route = "PUT /team-members" /\ request.image.type = {"import"}

\* The image a superseding update is to store.
SupersedingImage(uploaded, image) ==
    IF uploaded # {}
      THEN [type |-> "upload",
            value |-> {[prefix |-> "/uploads/", name |-> f] : f \in uploaded}]
      ELSE [type |-> CHOOSE t \in image.type : TRUE, value |-> image.value]

\* The image of the updated record before (image) and after (image2) a
\* successful superseding update of a record whose image kind was upload.
SupersedingUpdate(P(_, _)) ==
    (req'.route \in UpdateRoutes /\ res'.status = 200 /\ Supersedes(req'.route, req')) =>
       /\ req'.route = "PUT /events" =>
             \A e \in events : (e._id = req'.id /\ e.poster.type = "upload") =>
                \E e2 \in events' : e2._id = e._id /\ P(e.poster, e2.poster)
       /\ req'.route = "PUT /team-members" =>
             \A m \in teamMembers : (m._id = req'.id /\ m.photo.type = "upload") =>
                \E m2 \in teamMembers' : m2._id = m._id /\ P(m.photo, m2.photo)

\* C10 as stated: after a successful superseding update the record holds the
\* new image and the old file is no longer on disk.
C10_UpdateSupersedesUpload ==
    [][ LET P(old, new) ==
              /\ new = SupersedingImage(res'.uploaded, req'.image)
              /\ FilesOf(old) \cap disk' = {}
        IN  SupersedingUpdate(P) ]_vars

\* C10 amended: after a successful superseding update the record holds the
\* new image, fs.unlink has been called on the old file, and the old file is
\* no longer on disk unless that call failed.
C10_UpdateSupersedesUploadBestEffort ==
    [][ LET P(old, new) ==
              /\ new = SupersedingImage(res'.uploaded, req'.image)
              /\ FilesOf(old) \subseteq res'.unlinkCalls
              /\ (FilesOf(old) \ res'.unlinkFailed) \cap disk' = {}
        IN  SupersedingUpdate(P) ]_vars

\* An update without a file declared url for an event whose poster was an
\* upload: the file was deleted and the poster is the url.
C10_Witness ==
    /\ req.route = "PUT /events" /\ res.status = 200
    /\ ~req.file /\ req.image.type = {"url"}
    /\ res.unlinkCalls # {} /\ res.unlinkFailed = {}
    /\ res.unlinkCalls \cap disk = {}
    /\ \E e \in events : e._id = req.id /\ e.poster.type = "url"

\* The image of the record a successful delete removed: the record is gone
\* from its collection, nothing else of the store changed, and P holds of
\* its image.
DeletedImage(P(_)) ==
    (req'.route \in DeleteRoutes /\ res'.status = 200) =>
       /\ req'.route = "DELETE /events" =>
             /\ teamMembers' = teamMembers
             /\ \E e \in events :
                   e._id = req'.id /\ events' = events \ {e} /\ P(e.poster)
       /\ req'.route = "DELETE /team-members" =>
             /\ events' = events
             /\ \E m \in teamMembers :
                   m._id = req'.id /\ teamMembers' = teamMembers \ {m} /\ P(m.photo)

\* C11 as stated: a delete answered 200 has removed the record; when its
\* image kind was upload the backing file is no longer on disk, and when it
\* was url or import no file was deleted.
C11_DeleteCascade ==
    [][ LET P(image) ==
              IF image.type = "upload"
                THEN FilesOf(image) \cap disk' = {}
                ELSE res'.unlinkCalls = {} /\ disk' = disk
        IN  DeletedImage(P) ]_vars

\* C11 amended: a delete answered 200 has removed the record; when its
\* image kind was upload fs.unlink has been called on the backing file, which
\* is no longer on disk unless that call failed, and when the kind was url or
\* import fs.unlink was not called and no file was deleted.
C11_DeleteCascadeBestEffort ==
    [][ LET P(image) ==
              IF image.type = "upload"
                THEN /\ FilesOf(image) \subseteq res'.unlinkCalls
                     /\ (FilesOf(image) \ res'.unlinkFailed) \cap disk' = {}
                ELSE res'.unlinkCalls = {} /\ disk' = disk
        IN  DeletedImage(P) ]_vars

\* A team member whose photo was an upload was deleted: the record is gone
\* and so is the file.
C11_Witness ==
    /\ req.route = "DELETE /team-members" /\ res.status = 200
    /\ res.unlinkCalls # {} /\ res.unlinkFailed = {}
    /\ res.unlinkCalls \cap disk = {}
    /\ \A m \in teamMembers : m._id # req.id

\* The image is of kind upload only as this request's upload handler made
\* it: the request stored a file and the value is the path of that file.
FromUploadHandler(image, uploaded) ==
    image.type = "upload" =>
       /\ uploaded # {}
       /\ image.value = {[prefix |-> "/uploads/", name |-> f] : f \in uploaded}

\* C12: every record a request stores or changes with image kind upload has
\* as value the path '/uploads/<generated filename>' of the file that the
\* upload handler stored for that very request; hence no persisted record
\* has kind upload with a value taken from the body.
C12_UploadValueFromHandler ==
    [][ /\ \A e \in events' \ events : FromUploadHandler(e.poster, res'.uploaded)
        /\ \A m \in teamMembers' \ teamMembers : FromUploadHandler(m.photo, res'.uploaded)
        /\ \A e \in events' : e.poster.type = "upload" =>
              \E f \in 1..(nextFile' - 1) :
                 e.poster.value = {[prefix |-> "/uploads/", name |-> f]}
        /\ \A m \in teamMembers' : m.photo.type = "upload" =>
              \E f \in 1..(nextFile' - 1) :
                 m.photo.value = {[prefix |-> "/uploads/", name |-> f]} ]_vars

\* An update without a file declared kind upload with a path of its own for
\* a team member whose photo is the second upload: it was refused and the
\* record still holds the generated path.
C12_Witness ==
    /\ req.route = "PUT /team-members" /\ res.status = 400
    /\ ~req.file /\ req.image = [type |-> {"upload"}, value |-> {CALLER_PATH}]
    /\ \E m \in teamMembers :
          m._id = req.id /\ m.photo = [type |-> "upload", value |-> {UploadPath(2)}]

\* The update reached its handler with neither a file nor a declared kind.
PlainUpdate ==
    /\ req'.route \in UpdateRoutes
    /\ "image" \in DOMAIN req'
    /\ ~req'.file
    /\ req'.image.type = {}

\* C13: an update that supplies neither a file nor a declared image kind
\* leaves the image of every record as it was, calls fs.unlink on nothing
\* and leaves the uploads directory as it was.
C13_UpdateFrame ==
    [][ PlainUpdate =>
          /\ \A e \in events : \E e2 \in events' : e2._id = e._id /\ e2.poster = e.poster
          /\ \A m \in teamMembers : \E m2 \in teamMembers' : m2._id = m._id /\ m2.photo = m.photo
          /\ res'.uploaded = {} /\ res'.unlinkCalls = {}
          /\ disk' = disk ]_vars

\* An update with a value but no kind and no file succeeded on an event
\* whose poster is an upload: the poster still names the file on disk.
C13_Witness ==
    /\ req.route = "PUT /events" /\ res.status = 200
    /\ ~req.file /\ req.image = [type |-> {}, value |-> {GOOD_URL}]
    /\ \E e \in events :
          e._id = req.id /\ e.poster.type = "upload" /\ FilesOf(e.poster) \subseteq disk

(***************************************************************************)
(* Properties of the role gate (SpecRoles).                                *)
(***************************************************************************)
\* C14: authorizeRoles(allowed) calls next() iff the request has an identity
\* whose role is present and is a member of allowed; otherwise it answers
\* 403, with the no-identity message when the identity or its role is absent
\* and with the role-not-allowed message when the role is not in allowed;
\* it changes nothing of the server's state.
C14_RoleGate ==
    [][ req'.route = "authorizeRoles" =>
          LET user == req'.user
              allowed == req'.roles
          IN  /\ res'.status = 0 <=>
                    \E u \in user : "role" \in DOMAIN u /\ u.role \in allowed
              /\ res'.status \in {0, 403}
              /\ (user = {} \/ \E u \in user : "role" \notin DOMAIN u) =>
                    res'.status = 403 /\ res'.message = NO_IDENTITY
              /\ (\E u \in user : "role" \in DOMAIN u /\ u.role # "" /\ u.role \notin allowed) =>
                    res'.status = 403 /\ res'.message = ROLE_NOT_ALLOWED
              /\ UNCHANGED <<now, authVars, envVars, resourceVars>> ]_vars

\* An identity of role member met authorizeRoles(['admin']) and was refused.
C14_Witness ==
    /\ req.route = "authorizeRoles"
    /\ req.roles = {"admin"}
    /\ \E u \in req.user : "role" \in DOMAIN u /\ u.role = "member"
    /\ res.status = 403 /\ res.message = ROLE_NOT_ALLOWED

\* The old files whose deletion this request attempted and saw fail.
OldFailed == res'.unlinkFailed \ res'.uploaded

\* The write of an update or delete was done as requested: the updated
\* record holds the superseding image, the deleted record is gone.
MutationDone ==
    /\ req'.route = "PUT /events" =>
          \E e \in events' : e._id = req'.id
                              /\ e.poster = SupersedingImage(res'.uploaded, req'.image)
    /\ req'.route = "PUT /team-members" =>
          \E m \in teamMembers' : m._id = req'.id
                                   /\ m.photo = SupersedingImage(res'.uploaded, req'.image)
    /\ req'.route = "DELETE /events" =>
          (\E e \in events : e._id = req'.id) /\ (\A e \in events' : e._id # req'.id)
    /\ req'.route = "DELETE /team-members" =>
          (\E m \in teamMembers : m._id = req'.id) /\ (\A m \in teamMembers' : m._id # req'.id)

\* C15: when an update or delete fails to delete the old image file, the
\* handler still goes on to its write to the store; if the store takes the
\* write the record is updated or removed and the answer is 200; and the
\* file whose deletion failed is left on disk, the request not trying again.
C15_UnlinkBestEffort ==
    [][ (req'.route \in UpdateRoutes \cup DeleteRoutes /\ OldFailed # {}) =>
          /\ res'.write # "none"
          /\ res'.write = "ok" => (res'.status = 200 /\ MutationDone)
          /\ OldFailed \cap disk \subseteq disk' ]_vars

\* An update with a new file could not delete the old poster: the event
\* holds the new poster, the answer is 200 and the old file is still there.
C15_Witness ==
    /\ req.route = "PUT /events" /\ res.status = 200 /\ req.file
    /\ (res.unlinkFailed \ res.uploaded) \cap disk # {}
    /\ \E e \in events : e._id = req.id /\ FilesOf(e.poster) = res.uploaded

\* C17: once every request has been answered, each record whose image kind
\* is upload names a file that is in the uploads directory.
C17_UploadsReferToFiles ==
    Idle =>
       /\ \A e \in events : e.poster.type = "upload" => FilesOf(e.poster) \subseteq disk
       /\ \A m \in teamMembers : m.photo.type = "upload" => FilesOf(m.photo) \subseteq disk

====
